---- MODULE Spec2Model ----
(***************************************************************************)
(* Model of the recipe API (pkdc/recipe-app-api): the recipe and tag view  *)
(* sets of app/recipe/views.py and the recipe serializer of                *)
(* app/recipe/serializers.py, over a relational store of users, tags,      *)
(* recipes and the recipe-tag association table.                           *)
(*                                                                         *)
(* One action is one HTTP request handled from start to end; resp holds    *)
(* the last request and its response (status code and body).               *)
(***************************************************************************)
EXTENDS Naturals, Sequences, FiniteSets, TLC

VARIABLES
    users,          \* rows of the user table: [email, name, password]
    tags,           \* rows of the tag table: [id, user, name]
    recipes,        \* rows of the recipe table: [id, user, title, image]
    recipe_tags,    \* rows of the recipe-tag association table: [recipe_id, tag_id]
    nextTagId,      \* next primary key of the tag table
    nextRecipeId,   \* next primary key of the recipe table
    writes,         \* requests that changed the store so far
    resp,           \* the last request and its response
    inflight        \* a recipe update whose statements run one by one (SpecSteps)

vars == <<users, tags, recipes, recipe_tags, nextTagId, nextRecipeId, writes, resp, inflight>>

\* the store
db == <<users, tags, recipes, recipe_tags, nextTagId, nextRecipeId>>

-----------------------------------------------------------------------------
(* Bounds and input sets *)

MaxWrites == 2        \* requests of one behaviour that change recipes or tags
MaxTagSpecs == 2      \* length of the tags list of a payload

Emails == {"user@example.com", "other@example.com"}
NewEmails == {"test@example.com"}
BadEmails == {""}
Passwords == {"pw", "pass", "pass5", "testpass123"}
UserNames == {"Test Name", "Other Name"}
Names == {"breakfast", "lunch"}
NewTitles == {"Sample recipe"}                 \* titles of the create payloads
Titles == {"Sample recipe", "Thai curry"}     \* titles of the update payloads
Images == {"image.jpg", "notanimage"}

Absent == "<absent>"      \* a field the payload does not carry
NoTags == <<Absent>>      \* the tags field of a payload that carries none
NoImage == "<none>"       \* the image field of a recipe without image

\* Python's order of the tag names (str comparison)
NameRank(n) == IF n = "breakfast" THEN 1 ELSE 2

\* the tags lists a payload can carry: sequences of names, repetitions included
TagSpecs == UNION {[1..n -> Names] : n \in 0..MaxTagSpecs}

\* values of the tags query parameter, as sequences of characters
QueryStrings ==
    { <<>>,
      <<"1">>, <<"2">>,
      <<"1", ",", "2">>,
      <<"1", ",", " ", "2">>,
      <<"2", ",", "2">>,
      <<"1", ",">>,
      <<"x">> }

-----------------------------------------------------------------------------
(* Helpers over sets and sequences *)

Max(S) == CHOOSE x \in S : \A y \in S : y <= x

\* the elements of a set of numbers as a sequence, largest first
RECURSIVE DescSeq(_)
DescSeq(S) == IF S = {} THEN <<>> ELSE <<Max(S)>> \o DescSeq(S \ {Max(S)})

Range(s) == {s[i] : i \in 1..Len(s)}

\* the query without distinct()
DistinctNot(s) == s

\* distinct(): a sequence without its repeated elements, first occurrences kept
RECURSIVE Distinct(_)
Distinct(s) ==
    IF s = <<>> THEN <<>>
    ELSE LET front == Distinct(SubSeq(s, 1, Len(s) - 1))
             last == s[Len(s)]
         IN IF last \in Range(front) THEN front ELSE Append(front, last)

-----------------------------------------------------------------------------
(* Rows and their representations *)

\* the tags attached to a recipe, in a given association table
TagsOf(rt, rid) == {a.tag_id : a \in {x \in rt : x.recipe_id = rid}}

\* TagSerializer: fields id, name
TagRepr(t) == [id |-> t.id, name |-> t.name]

\* RecipeSerializer: the recipe's fields (title stands for the writable scalar
\* fields) and its nested tags, read from the tag table tgs and the association
\* table rt
RecipeRepr(r, tgs, rt) ==
    [id |-> r.id, title |-> r.title,
     tags |-> {TagRepr(t) : t \in {x \in tgs : x.id \in TagsOf(rt, r.id)}}]

\* RecipeDetailSerializer: the fields of RecipeSerializer and the image
RecipeDetailRepr(r, tgs, rt) ==
    [id |-> r.id, title |-> r.title, image |-> r.image,
     tags |-> {TagRepr(t) : t \in {x \in tgs : x.id \in TagsOf(rt, r.id)}}]

\* a request (its kind, its user, the primary key of its URL, 0 when it has
\* none, and its payload or query parameter) with its response (the status code
\* and the body)
Response(op, user, id, payload, status, data) ==
    [op |-> op, user |-> user, id |-> id, payload |-> payload,
     status |-> status, data |-> data]

Idle == [pc |-> "idle"]

-----------------------------------------------------------------------------
(* Tag resolution: RecipeSerializer._get_or_create_tags *)

\* Tag.objects.create in the place of get_or_create: no lookup
GetOrCreateTagNoGet(st, user, name) ==
    [st EXCEPT !.tags = @ \cup {[id |-> st.nextTagId, user |-> user, name |-> name]},
               !.nextTagId = @ + 1,
               !.tag_obj = st.nextTagId]

\* get_or_create(**tag) without user=auth_user: the lookup is by name alone
GetOrCreateTagAnyUser(st, user, name) ==
    LET found == {t \in st.tags : t.name = name}
    IN  IF found = {}
        THEN [st EXCEPT !.tags = @ \cup {[id |-> st.nextTagId, user |-> user, name |-> name]},
                        !.nextTagId = @ + 1,
                        !.tag_obj = st.nextTagId]
        ELSE IF Cardinality(found) = 1
        THEN [st EXCEPT !.tag_obj = (CHOOSE t \in found : TRUE).id]
        ELSE [st EXCEPT !.error = TRUE]

\* Tag.objects.get_or_create(user=auth_user, name=name) on the store
\* st = [tags, recipe_tags, nextTagId, tag_obj, error]: the row (user, name) when
\* there is one, a new row when there is none
GetOrCreateTag(st, user, name) ==
    LET found == {t \in st.tags : t.user = user /\ t.name = name}
    IN  IF found = {}
        THEN [st EXCEPT !.tags = @ \cup {[id |-> st.nextTagId, user |-> user, name |-> name]},
                        !.nextTagId = @ + 1,
                        !.tag_obj = st.nextTagId]
        ELSE IF Cardinality(found) = 1
        THEN [st EXCEPT !.tag_obj = (CHOOSE t \in found : TRUE).id]
        ELSE [st EXCEPT !.error = TRUE]     \* MultipleObjectsReturned

\* recipe.tags.add(tag_obj)
AddTag(st, rid) ==
    [st EXCEPT !.recipe_tags = @ \cup {[recipe_id |-> rid, tag_id |-> st.tag_obj]}]

\* instance.tags.clear()
ClearTags(st, rid) ==
    [st EXCEPT !.recipe_tags = {a \in @ : a.recipe_id # rid}]

\* the loop of _get_or_create_tags over the tags list, first element first
RECURSIVE GetOrCreateTags(_, _, _, _)
GetOrCreateTags(st, user, specs, rid) ==
    IF specs = <<>> \/ st.error THEN st
    ELSE LET got == GetOrCreateTag(st, user, Head(specs))
         IN  IF got.error THEN got
             ELSE GetOrCreateTags(AddTag(got, rid), user, Tail(specs), rid)

Store == [tags |-> tags, recipe_tags |-> recipe_tags, nextTagId |-> nextTagId,
          tag_obj |-> 0, error |-> FALSE]

-----------------------------------------------------------------------------
(* Query sets: RecipeViewSet.get_queryset, TagViewSet.get_queryset *)

IsSpace(c) == c = " "
IsDigit(c) == c \in {"0", "1", "2", "3", "4", "5", "6", "7", "8", "9"}
DigitVal(c) ==
    CASE c = "0" -> 0 [] c = "1" -> 1 [] c = "2" -> 2 [] c = "3" -> 3 [] c = "4" -> 4
      [] c = "5" -> 5 [] c = "6" -> 6 [] c = "7" -> 7 [] c = "8" -> 8 [] c = "9" -> 9

\* str.split(','): the pieces between the commas, empty pieces included
RECURSIVE Split(_)
Split(s) ==
    IF \A i \in 1..Len(s) : s[i] # "," THEN <<s>>
    ELSE LET k == CHOOSE i \in 1..Len(s) :
                      s[i] = "," /\ \A j \in 1..(i - 1) : s[j] # ","
         IN  <<SubSeq(s, 1, k - 1)>> \o Split(SubSeq(s, k + 1, Len(s)))

\* int() ignores the white space around the number
RECURSIVE Strip(_)
Strip(s) ==
    IF s = <<>> THEN s
    ELSE IF IsSpace(s[1]) THEN Strip(Tail(s))
    ELSE IF IsSpace(s[Len(s)]) THEN Strip(SubSeq(s, 1, Len(s) - 1))
    ELSE s

RECURSIVE Decimal(_)
Decimal(s) == IF s = <<>> THEN 0 ELSE 10 * Decimal(SubSeq(s, 1, Len(s) - 1)) + DigitVal(s[Len(s)])

\* int(str_id) raises ValueError unless the piece is a number
IsInt(s) == Strip(s) # <<>> /\ \A i \in 1..Len(Strip(s)) : IsDigit(Strip(s)[i])
ParseInt(s) == Decimal(Strip(s))

\* _params_to_int_list: [int(str_id) for str_id in qs.split(',')]
ParamsOk(qs) == \A i \in 1..Len(Split(qs)) : IsInt(Split(qs)[i])
ParamsToIntList(qs) == [i \in 1..Len(Split(qs)) |-> ParseInt(Split(qs)[i])]

\* k copies of x
Copies(x, k) == [i \in 1..k |-> x]

\* the rows of recipe joined with its associations whose tag id is in tag_ids
\* (filter(tags__id__in=tag_ids)), one row per matching association, for the
\* recipes with the ids in ids, ordered by -id
RECURSIVE JoinRows(_, _)
JoinRows(ids, tag_ids) ==
    IF ids = <<>> THEN <<>>
    ELSE Copies(Head(ids), Cardinality(TagsOf(recipe_tags, Head(ids)) \cap tag_ids))
         \o JoinRows(Tail(ids), tag_ids)

RecipeById(id) == CHOOSE r \in recipes : r.id = id
TagById(id) == CHOOSE t \in tags : t.id = id

\* get_queryset without filter(user=self.request.user)
RecipeUserFilterNone(r, user) == TRUE

\* filter(user=self.request.user) of RecipeViewSet.get_queryset: the condition
\* on a row, and the rows of a result that satisfy it
RecipeUserFilter(r, user) == r.user = user
FilterUser(rows, user) == SelectSeq(rows, LAMBDA id : RecipeUserFilter(RecipeById(id), user))

\* RecipeViewSet.get_queryset: the ids of the rows the query returns, in order
RecipeQueryset(user, qs) ==
    LET all == DescSeq({r.id : r \in recipes})
        rows == IF qs # <<>>
                THEN JoinRows(all, Range(ParamsToIntList(qs)))
                ELSE all
    IN  Distinct(FilterUser(rows, user))

\* the tag of the highest name in a set of tags (the lowest id among equals)
TopTag(S) ==
    CHOOSE t \in S : \A u \in S :
        \/ NameRank(u.name) < NameRank(t.name)
        \/ NameRank(u.name) = NameRank(t.name) /\ t.id <= u.id

RECURSIVE ByNameDesc(_)
ByNameDesc(S) == IF S = {} THEN <<>> ELSE <<TopTag(S)>> \o ByNameDesc(S \ {TopTag(S)})

\* filter(user=self.request.user) of TagViewSet.get_queryset
TagUserFilter(t, user) == t.user = user

\* TagViewSet.get_queryset: filter(user=self.request.user).order_by('-name');
\* the assigned_only parameter of the request is not read
TagQueryset(user, assigned_only) ==
    ByNameDesc({t \in tags : TagUserFilter(t, user)})


-----------------------------------------------------------------------------
Init ==
    /\ users = {[email |-> e, name |-> "Test Name", password |-> "testpass123"] : e \in Emails}
    /\ tags = {}
    /\ recipes = {}
    /\ recipe_tags = {}
    /\ nextTagId = 1
    /\ nextRecipeId = 1
    /\ writes = 0
    /\ resp = Response("none", "", 0, <<>>, 0, <<>>)
    /\ inflight = Idle

\* the budget of a behaviour: requests that change recipes or tags
Write == writes < MaxWrites /\ writes' = writes + 1
NoWrite == UNCHANGED <<db, writes>>

\* the users a token authenticates
Authenticated == {u.email : u \in users}

\* the primary keys a request can name: those given out so far (the key of a
\* deleted row names no row)
RecipeKeys == 1..(nextRecipeId - 1)
TagKeys == 1..(nextTagId - 1)

-----------------------------------------------------------------------------
(* The user API: POST /users *)

MinPasswordLength == 5

\* the validation without min_length on the password
UserValidNoLength(email, password) ==
    /\ email \notin BadEmails
    /\ email \notin {u.email : u \in users}

\* the validation of the user serializer: a well-formed email that is not
\* registered yet and a password of the minimum length
UserValid(email, password) ==
    /\ email \notin BadEmails
    /\ email \notin {u.email : u \in users}
    /\ Len(password) >= MinPasswordLength

\* the public fields of a user: the password is write-only
UserRepr(u) == [email |-> u.email, name |-> u.name]

CreateUserResponse(email, password, name) ==
    IF UserValid(email, password)
    THEN Response("create_user", "", 0,
                  [email |-> email, password |-> password, name |-> name], 201,
                  <<UserRepr([email |-> email, name |-> name, password |-> password])>>)
    ELSE Response("create_user", "", 0,
                  [email |-> email, password |-> password, name |-> name], 400,
                  <<>>)

CreateUser(email, password, name) ==
    /\ inflight = Idle
    /\ resp' = CreateUserResponse(email, password, name)
    /\ users' = IF UserValid(email, password)
                THEN users \cup {[email |-> email, name |-> name, password |-> password]}
                ELSE users
    /\ UNCHANGED <<tags, recipes, recipe_tags, nextTagId, nextRecipeId, writes, inflight>>

-----------------------------------------------------------------------------
(* The recipe API: RecipeViewSet *)

\* get_object on Recipe.objects.all() in the place of get_queryset()
FoundAny(user, id) == \E r \in recipes : r.id = id

\* get_object: the row of the query set with this primary key, or Http404
Found(user, id) == \E r \in recipes : r.id = id /\ RecipeUserFilter(r, user)

\* GET /recipes[?tags=...]: ValueError of int() is a server error
ListRecipesResponse(user, qs) ==
    IF qs # <<>> /\ ~ParamsOk(qs)
    THEN Response("list_recipes", user, 0, [tags |-> qs], 500, <<>>)
    ELSE LET ids == RecipeQueryset(user, qs)
         IN  Response("list_recipes", user, 0, [tags |-> qs], 200,
                      [i \in 1..Len(ids) |->
                          RecipeRepr(RecipeById(ids[i]), tags, recipe_tags)])

ListRecipes(user, qs) ==
    /\ user \in Authenticated
    /\ resp' = ListRecipesResponse(user, qs)
    /\ UNCHANGED <<db, writes, inflight>>

\* GET /recipes/{id}
RetrieveRecipeResponse(user, id) ==
    IF Found(user, id)
    THEN Response("retrieve_recipe", user, id,
                  <<>>, 200,
                  <<RecipeDetailRepr(RecipeById(id), tags, recipe_tags)>>)
    ELSE Response("retrieve_recipe", user, id, <<>>, 404, <<>>)

RetrieveRecipe(user, id) ==
    /\ user \in Authenticated
    /\ resp' = RetrieveRecipeResponse(user, id)
    /\ UNCHANGED <<db, writes, inflight>>

\* POST /recipes: perform_create and RecipeSerializer.create
CreateRecipe(user, title, tagspecs) ==
    /\ inflight = Idle
    /\ user \in Authenticated
    /\ Write
    /\ LET tgs == IF tagspecs = NoTags THEN <<>> ELSE tagspecs
           recipe == [id |-> nextRecipeId, user |-> user, title |-> title, image |-> NoImage]
           st == GetOrCreateTags(Store, user, tgs, recipe.id)
       IN  /\ recipes' = recipes \cup {recipe}
           /\ nextRecipeId' = nextRecipeId + 1
           /\ tags' = st.tags
           /\ recipe_tags' = st.recipe_tags
           /\ nextTagId' = st.nextTagId
           /\ resp' = IF st.error
                      THEN Response("create_recipe", user, recipe.id,
                                    [title |-> title, tags |-> tagspecs], 500,
                                    <<>>)
                      ELSE Response("create_recipe", user, recipe.id,
                                    [title |-> title, tags |-> tagspecs], 201,
                                    <<RecipeDetailRepr(recipe, st.tags, st.recipe_tags)>>)
    /\ UNCHANGED <<users, inflight>>

\* the "other fields" loop of RecipeSerializer.update and instance.save()
SetAttrs(instance, title) ==
    IF title = Absent THEN instance ELSE [instance EXCEPT !.title = title]

\* the tags part of update without instance.tags.clear()
UpdateTagsNoClear(st, user, tagspecs, rid) ==
    IF tagspecs = NoTags THEN st
    ELSE GetOrCreateTags(st, user, tagspecs, rid)

\* the tags part of update with pop('tags', []) for pop('tags', None)
UpdateTagsDefaultEmpty(st, user, tagspecs, rid) ==
    GetOrCreateTags(ClearTags(st, rid), user, IF tagspecs = NoTags THEN <<>> ELSE tagspecs, rid)

\* the tags part of RecipeSerializer.update
UpdateTags(st, user, tagspecs, rid) ==
    IF tagspecs = NoTags THEN st
    ELSE GetOrCreateTags(ClearTags(st, rid), user, tagspecs, rid)

\* PATCH or PUT /recipes/{id}: get_object and RecipeSerializer.update
UpdateRecipe(user, id, title, tagspecs) ==
    /\ inflight = Idle
    /\ user \in Authenticated
    /\ IF ~Found(user, id)
       THEN /\ resp' = Response("update_recipe", user, id,
                                [title |-> title, tags |-> tagspecs], 404,
                                <<>>)
            /\ NoWrite
       ELSE LET instance == RecipeById(id)
                st == UpdateTags(Store, user, tagspecs, id)
                saved == SetAttrs(instance, title)
            IN  /\ Write
                /\ tags' = st.tags
                /\ recipe_tags' = st.recipe_tags
                /\ nextTagId' = st.nextTagId
                /\ recipes' = IF st.error THEN recipes
                              ELSE (recipes \ {instance}) \cup {saved}
                /\ resp' = IF st.error
                           THEN Response("update_recipe", user, id,
                                         [title |-> title, tags |-> tagspecs], 500,
                                         <<>>)
                           ELSE Response("update_recipe", user, id,
                                         [title |-> title, tags |-> tagspecs], 200,
                                         <<RecipeDetailRepr(saved, st.tags, st.recipe_tags)>>)
                /\ UNCHANGED <<users, nextRecipeId>>
    /\ UNCHANGED inflight

\* DELETE /recipes/{id}: the row and its rows of the association table
DeleteRecipe(user, id) ==
    /\ inflight = Idle
    /\ user \in Authenticated
    /\ IF ~Found(user, id)
       THEN /\ resp' = Response("delete_recipe", user, id, <<>>, 404, <<>>)
            /\ NoWrite
       ELSE /\ Write
            /\ recipes' = recipes \ {RecipeById(id)}
            /\ recipe_tags' = {a \in recipe_tags : a.recipe_id # id}
            /\ resp' = Response("delete_recipe", user, id, <<>>, 204, <<>>)
            /\ UNCHANGED <<users, tags, nextTagId, nextRecipeId>>
    /\ UNCHANGED inflight

\* RecipeImageSerializer.is_valid: the image field decodes as an image
ImageValid(image) == image # "notanimage"

\* POST /recipes/{id}/upload-image
UploadImage(user, id, image) ==
    /\ inflight = Idle
    /\ user \in Authenticated
    /\ IF ~Found(user, id)
       THEN /\ resp' = Response("upload_image", user, id, [image |-> image], 404, <<>>)
            /\ NoWrite
       ELSE IF ImageValid(image)
       THEN /\ Write
            /\ recipes' = (recipes \ {RecipeById(id)})
                              \cup {[RecipeById(id) EXCEPT !.image = image]}
            /\ resp' = Response("upload_image", user, id,
                                [image |-> image], 200,
                                <<[id |-> id, image |-> image]>>)
            /\ UNCHANGED <<users, tags, recipe_tags, nextTagId, nextRecipeId>>
       ELSE /\ resp' = Response("upload_image", user, id, [image |-> image], 400, <<>>)
            /\ NoWrite
    /\ UNCHANGED inflight

-----------------------------------------------------------------------------
(* The tag API: TagViewSet (list, update, destroy) *)

AssignedOnly == {Absent, "1"}

\* get_object on the tags of the user
FoundTag(user, id) == \E t \in tags : t.id = id /\ TagUserFilter(t, user)

\* GET /tags[?assigned_only=1]
ListTagsResponse(user, assigned_only) ==
    LET rows == TagQueryset(user, assigned_only)
    IN  Response("list_tags", user, 0,
                 [assigned_only |-> assigned_only], 200,
                 [i \in 1..Len(rows) |-> TagRepr(rows[i])])

ListTags(user, assigned_only) ==
    /\ user \in Authenticated
    /\ resp' = ListTagsResponse(user, assigned_only)
    /\ UNCHANGED <<db, writes, inflight>>

\* a tag table without the uniqueness of (user, name)
TagUniqueNone(tgs) == TRUE

\* the uniqueness of (user, name) the tag table enforces; a rename that breaks
\* it is conflicting input, a validation error
TagUnique(tgs) ==
    \A t, u \in tgs : t.user = u.user /\ t.name = u.name => t.id = u.id

\* PATCH or PUT /tags/{id}
UpdateTag(user, id, name) ==
    /\ inflight = Idle
    /\ user \in Authenticated
    /\ IF ~FoundTag(user, id)
       THEN /\ resp' = Response("update_tag", user, id, [name |-> name], 404, <<>>)
            /\ NoWrite
       ELSE LET saved == [TagById(id) EXCEPT !.name = name]
                after == (tags \ {TagById(id)}) \cup {saved}
            IN  IF TagUnique(after)
                THEN /\ Write
                     /\ tags' = after
                     /\ resp' = Response("update_tag", user, id,
                                         [name |-> name], 200,
                                         <<TagRepr(saved)>>)
                     /\ UNCHANGED <<users, recipes, recipe_tags, nextTagId, nextRecipeId>>
                ELSE /\ resp' = Response("update_tag", user, id, [name |-> name], 400, <<>>)
                     /\ NoWrite
    /\ UNCHANGED inflight

\* a tag delete that cascades to the recipes carrying the tag
DeleteTagCascade(user, id) ==
    /\ inflight = Idle
    /\ user \in Authenticated
    /\ IF ~FoundTag(user, id)
       THEN /\ resp' = Response("delete_tag", user, id, <<>>, 404, <<>>)
            /\ NoWrite
       ELSE LET carrying == {a.recipe_id : a \in {x \in recipe_tags : x.tag_id = id}}
            IN  /\ Write
                /\ tags' = tags \ {TagById(id)}
                /\ recipes' = {r \in recipes : r.id \notin carrying}
                /\ recipe_tags' = {a \in recipe_tags :
                                       a.tag_id # id /\ a.recipe_id \notin carrying}
                /\ resp' = Response("delete_tag", user, id, <<>>, 204, <<>>)
                /\ UNCHANGED <<users, nextTagId, nextRecipeId>>
    /\ UNCHANGED inflight

\* DELETE /tags/{id}: the row and its rows of the association table
DeleteTag(user, id) ==
    /\ inflight = Idle
    /\ user \in Authenticated
    /\ IF ~FoundTag(user, id)
       THEN /\ resp' = Response("delete_tag", user, id, <<>>, 404, <<>>)
            /\ NoWrite
       ELSE /\ Write
            /\ tags' = tags \ {TagById(id)}
            /\ recipe_tags' = {a \in recipe_tags : a.tag_id # id}
            /\ resp' = Response("delete_tag", user, id, <<>>, 204, <<>>)
            /\ UNCHANGED <<users, recipes, nextTagId, nextRecipeId>>
    /\ UNCHANGED inflight

-----------------------------------------------------------------------------
(* A recipe update statement by statement: each statement of                *)
(* RecipeSerializer.update is committed on its own, and requests that read  *)
(* run between two statements.                                              *)

\* get_object and the start of RecipeSerializer.update with a tags list
BeginUpdate(user, id, title, tagspecs) ==
    /\ inflight = Idle
    /\ user \in Authenticated
    /\ Found(user, id)
    /\ tagspecs # NoTags
    /\ Write
    /\ inflight' = [pc |-> "clear", user |-> user, id |-> id, title |-> title,
                    tags |-> tagspecs, i |-> 1, tag_obj |-> 0,
                    before |-> RecipeDetailRepr(RecipeById(id), tags, recipe_tags).tags]
    /\ UNCHANGED <<db, resp>>

\* instance.tags.clear()
StepClear ==
    /\ inflight.pc = "clear"
    /\ recipe_tags' = ClearTags(Store, inflight.id).recipe_tags
    /\ inflight' = [inflight EXCEPT
                       !.pc = IF inflight.tags = <<>> THEN "save" ELSE "get_or_create"]
    /\ UNCHANGED <<users, tags, recipes, nextTagId, nextRecipeId, writes, resp>>

\* tag_obj, _ = Tag.objects.get_or_create(user=auth_user, **tag)
StepGetOrCreate ==
    /\ inflight.pc = "get_or_create"
    /\ LET st == GetOrCreateTag(Store, inflight.user, inflight.tags[inflight.i])
       IN  /\ tags' = st.tags
           /\ nextTagId' = st.nextTagId
           /\ inflight' = [inflight EXCEPT !.pc = "add", !.tag_obj = st.tag_obj]
    /\ UNCHANGED <<users, recipes, recipe_tags, nextRecipeId, writes, resp>>

\* recipe.tags.add(tag_obj)
StepAdd ==
    /\ inflight.pc = "add"
    /\ recipe_tags' = AddTag([Store EXCEPT !.tag_obj = inflight.tag_obj], inflight.id).recipe_tags
    /\ inflight' = [inflight EXCEPT
                       !.i = @ + 1,
                       !.pc = IF inflight.i = Len(inflight.tags) THEN "save" ELSE "get_or_create"]
    /\ UNCHANGED <<users, tags, recipes, nextTagId, nextRecipeId, writes, resp>>

\* setattr for the other fields, instance.save() and the response
StepSave ==
    /\ inflight.pc = "save"
    /\ LET instance == RecipeById(inflight.id)
           saved == SetAttrs(instance, inflight.title)
       IN  /\ recipes' = (recipes \ {instance}) \cup {saved}
           /\ resp' = Response("update_recipe", inflight.user, inflight.id,
                               [title |-> inflight.title, tags |-> inflight.tags], 200,
                               <<RecipeDetailRepr(saved, tags, recipe_tags)>>)
    /\ inflight' = Idle
    /\ UNCHANGED <<users, tags, recipe_tags, nextTagId, nextRecipeId, writes>>

-----------------------------------------------------------------------------
(* Concurrent requests: recipe creates and updates of two workers run         *)
(* statement by statement, each statement committed on its own. inflight     *)
(* holds the request of each worker.                                         *)

Procs == {1, 2}

\* the request of a worker: its position, its payload, the tag rows it
\* inserted (made), the names it got after an IntegrityError (retried) and, for
\* an update, the tags of the recipe when it began (before)
IdleReq == [pc |-> "idle", kind |-> "", user |-> "", id |-> 0, title |-> Absent,
            tags |-> <<>>, i |-> 0, tag_obj |-> 0, made |-> {}, retried |-> {},
            before |-> {}]

Requests == [pc |-> "requests", reqs |-> [p \in Procs |-> IdleReq]]

\* each worker runs one request, and a request goes to the first worker that
\* has none
Free(p) ==
    /\ inflight.reqs[p].pc = "idle"
    /\ \A q \in Procs : q < p => inflight.reqs[q].pc # "idle"

\* the statement after the one at position i of the loop over the tags list
AfterTag(req) == IF req.i = Len(req.tags) THEN "finish" ELSE "lookup"

\* get_or_create, first half: self.get(user=auth_user, name=name); tag_obj 0
\* stands for DoesNotExist
LookupTag(st, user, name) ==
    LET found == {t \in st.tags : t.user = user /\ t.name = name}
    IN  IF found = {} THEN [st EXCEPT !.tag_obj = 0]
        ELSE IF Cardinality(found) = 1
        THEN [st EXCEPT !.tag_obj = (CHOOSE t \in found : TRUE).id]
        ELSE [st EXCEPT !.error = TRUE]     \* MultipleObjectsReturned

\* check-then-insert on a table that lets the second row in
CreateOrGetTagUnchecked(st, user, name) ==
    [st EXCEPT !.tags = @ \cup {[id |-> st.nextTagId, user |-> user, name |-> name]},
               !.nextTagId = @ + 1,
               !.tag_obj = st.nextTagId]

\* get_or_create, second half: self.create(user=auth_user, name=name), and
\* self.get again when the table refuses the row (IntegrityError)
CreateOrGetTag(st, user, name) ==
    LET row == [id |-> st.nextTagId, user |-> user, name |-> name]
    IN  IF TagUnique(st.tags \cup {row})
        THEN [st EXCEPT !.tags = @ \cup {row},
                        !.nextTagId = @ + 1,
                        !.tag_obj = row.id]
        ELSE LET got == LookupTag(st, user, name)
             IN  IF got.tag_obj = 0 THEN [got EXCEPT !.error = TRUE] ELSE got

\* the response of a request that raised: a server error
Failed(req) ==
    Response(IF req.kind = "create" THEN "create_recipe" ELSE "update_recipe",
             req.user, req.id, [title |-> req.title, tags |-> req.tags], 500, <<>>)

\* POST /recipes: validation and Recipe.objects.create(**validated_data)
BeginCreate(p, user, title, tagspecs) ==
    /\ inflight.pc = "requests"
    /\ Free(p)
    /\ user \in Authenticated
    /\ recipes' = recipes \cup
           {[id |-> nextRecipeId, user |-> user, title |-> title, image |-> NoImage]}
    /\ nextRecipeId' = nextRecipeId + 1
    /\ inflight' = [inflight EXCEPT !.reqs[p] =
           [pc |-> IF tagspecs = <<>> THEN "finish" ELSE "lookup",
            kind |-> "create", user |-> user, id |-> nextRecipeId, title |-> title,
            tags |-> tagspecs, i |-> 1, tag_obj |-> 0, made |-> {}, retried |-> {},
            before |-> {}]]
    /\ UNCHANGED <<users, tags, recipe_tags, nextTagId, writes, resp>>

\* PATCH /recipes/{id} with a tags list: get_object and validation
BeginUpdateTags(p, user, id, title, tagspecs) ==
    /\ inflight.pc = "requests"
    /\ Free(p)
    /\ user \in Authenticated
    /\ Found(user, id)
    /\ inflight' = [inflight EXCEPT !.reqs[p] =
           [pc |-> "clear", kind |-> "update", user |-> user, id |-> id, title |-> title,
            tags |-> tagspecs, i |-> 1, tag_obj |-> 0, made |-> {}, retried |-> {},
            before |-> TagsOf(recipe_tags, id)]]
    /\ UNCHANGED <<db, writes, resp>>

\* instance.tags.clear()
ProcClear(p) ==
    /\ inflight.pc = "requests"
    /\ inflight.reqs[p].pc = "clear"
    /\ recipe_tags' = ClearTags(Store, inflight.reqs[p].id).recipe_tags
    /\ inflight' = [inflight EXCEPT !.reqs[p].pc =
           IF inflight.reqs[p].tags = <<>> THEN "finish" ELSE "lookup"]
    /\ UNCHANGED <<users, tags, recipes, nextTagId, nextRecipeId, writes, resp>>

\* get_or_create: the lookup
ProcLookup(p) ==
    /\ inflight.pc = "requests"
    /\ inflight.reqs[p].pc = "lookup"
    /\ LET req == inflight.reqs[p]
           st == LookupTag(Store, req.user, req.tags[req.i])
       IN  IF st.error
           THEN /\ inflight' = [inflight EXCEPT !.reqs[p].pc = "failed"]
                /\ resp' = Failed(req)
           ELSE /\ inflight' = [inflight EXCEPT
                       !.reqs[p].pc = IF st.tag_obj = 0 THEN "insert" ELSE "add",
                       !.reqs[p].tag_obj = st.tag_obj]
                /\ UNCHANGED resp
    /\ UNCHANGED <<db, writes>>

\* get_or_create: the insert after a lookup that found no row
ProcInsert(p) ==
    /\ inflight.pc = "requests"
    /\ inflight.reqs[p].pc = "insert"
    /\ LET req == inflight.reqs[p]
           st == CreateOrGetTag(Store, req.user, req.tags[req.i])
       IN  IF st.error
           THEN /\ inflight' = [inflight EXCEPT !.reqs[p].pc = "failed"]
                /\ resp' = Failed(req)
                /\ UNCHANGED <<tags, nextTagId>>
           ELSE /\ tags' = st.tags
                /\ nextTagId' = st.nextTagId
                /\ inflight' = [inflight EXCEPT
                       !.reqs[p].pc = "add",
                       !.reqs[p].tag_obj = st.tag_obj,
                       !.reqs[p].made = IF st.tags = tags THEN @ ELSE @ \cup {st.tag_obj},
                       !.reqs[p].retried =
                           IF st.tags = tags THEN @ \cup {req.tags[req.i]} ELSE @]
                /\ UNCHANGED resp
    /\ UNCHANGED <<users, recipes, recipe_tags, nextRecipeId, writes>>

\* recipe.tags.add(tag_obj): the association row refers to a row of each table
\* (IntegrityError when one is gone)
ProcAdd(p) ==
    /\ inflight.pc = "requests"
    /\ inflight.reqs[p].pc = "add"
    /\ LET req == inflight.reqs[p]
       IN  IF (\E t \in tags : t.id = req.tag_obj) /\ (\E r \in recipes : r.id = req.id)
           THEN /\ recipe_tags' =
                       AddTag([Store EXCEPT !.tag_obj = req.tag_obj], req.id).recipe_tags
                /\ inflight' = [inflight EXCEPT !.reqs[p].pc = AfterTag(req),
                                                !.reqs[p].i = @ + 1]
                /\ UNCHANGED resp
           ELSE /\ inflight' = [inflight EXCEPT !.reqs[p].pc = "failed"]
                /\ resp' = Failed(req)
                /\ UNCHANGED recipe_tags
    /\ UNCHANGED <<users, tags, recipes, nextTagId, nextRecipeId, writes>>

\* the end of the request: for an update the setattr loop and instance.save();
\* the response
ProcFinish(p) ==
    /\ inflight.pc = "requests"
    /\ inflight.reqs[p].pc = "finish"
    /\ LET req == inflight.reqs[p]
           instance == RecipeById(req.id)
           saved == IF req.kind = "update" THEN SetAttrs(instance, req.title) ELSE instance
       IN  /\ recipes' = (recipes \ {instance}) \cup {saved}
           /\ resp' = Response(IF req.kind = "create" THEN "create_recipe" ELSE "update_recipe",
                               req.user, req.id, [title |-> req.title, tags |-> req.tags],
                               IF req.kind = "create" THEN 201 ELSE 200,
                               <<RecipeDetailRepr(saved, tags, recipe_tags)>>)
    /\ inflight' = [inflight EXCEPT !.reqs[p].pc = "done"]
    /\ UNCHANGED <<users, tags, recipe_tags, nextTagId, nextRecipeId, writes>>

\* DELETE /tags/{id} between the statements of the other requests
ConcurrentDeleteTag(user, id) ==
    /\ inflight.pc = "requests"
    /\ user \in Authenticated
    /\ FoundTag(user, id)
    /\ Write
    /\ tags' = tags \ {TagById(id)}
    /\ recipe_tags' = {a \in recipe_tags : a.tag_id # id}
    /\ resp' = Response("delete_tag", user, id, <<>>, 204, <<>>)
    /\ UNCHANGED <<users, recipes, nextTagId, nextRecipeId, inflight>>

-----------------------------------------------------------------------------
(* Specifications *)

\* get_object answers a request for a row that is not found before the payload
\* is read: one payload stands for all of them then
RecipePayloads(u, id) ==
    IF Found(u, id) THEN (Titles \cup {Absent}) \X (TagSpecs \cup {NoTags})
    ELSE {<<Absent, NoTags>>}
ImagePayloads(u, id) == IF Found(u, id) THEN Images ELSE {"image.jpg"}
TagPayloads(u, id) == IF FoundTag(u, id) THEN Names ELSE {"lunch"}

Next ==
    \/ \E u \in Emails, q \in QueryStrings : ListRecipes(u, q)
    \/ \E u \in Emails, id \in RecipeKeys : RetrieveRecipe(u, id)
    \/ \E u \in Emails, t \in NewTitles, ts \in TagSpecs \cup {NoTags} : CreateRecipe(u, t, ts)
    \/ \E u \in Emails, id \in RecipeKeys : \E p \in RecipePayloads(u, id) :
            UpdateRecipe(u, id, p[1], p[2])
    \/ \E u \in Emails, id \in RecipeKeys : DeleteRecipe(u, id)
    \/ \E u \in Emails, id \in RecipeKeys : \E img \in ImagePayloads(u, id) :
            UploadImage(u, id, img)
    \/ \E u \in Emails, a \in AssignedOnly : ListTags(u, a)
    \/ \E u \in Emails, id \in TagKeys : \E n \in TagPayloads(u, id) : UpdateTag(u, id, n)
    \/ \E u \in Emails, id \in TagKeys : DeleteTag(u, id)

\* the recipe and tag API, every request running alone
Spec == Init /\ [][Next]_vars

NextSteps ==
    \/ \E u \in Emails, t \in NewTitles, ts \in TagSpecs \cup {NoTags} : CreateRecipe(u, t, ts)
    \/ \E u \in Emails, id \in RecipeKeys, t \in Titles \cup {Absent}, ts \in TagSpecs :
            BeginUpdate(u, id, t, ts)
    \/ StepClear
    \/ StepGetOrCreate
    \/ StepAdd
    \/ StepSave
    \/ \E u \in Emails, q \in QueryStrings : ListRecipes(u, q)
    \/ \E u \in Emails, id \in RecipeKeys : RetrieveRecipe(u, id)
    \/ \E u \in Emails, a \in AssignedOnly : ListTags(u, a)

\* requests that read run between the statements of a recipe update
SpecSteps == Init /\ [][NextSteps]_vars

InitUsers ==
    /\ users = {}
    /\ tags = {}
    /\ recipes = {}
    /\ recipe_tags = {}
    /\ nextTagId = 1
    /\ nextRecipeId = 1
    /\ writes = 0
    /\ resp = Response("none", "", 0, <<>>, 0, <<>>)
    /\ inflight = Idle

NextUsers ==
    \E e \in Emails \cup NewEmails \cup BadEmails, p \in Passwords, n \in UserNames :
        CreateUser(e, p, n)

\* the user API, from the empty user table
SpecUsers == InitUsers /\ [][NextUsers]_vars

\* the store after POST /recipes {title: "Sample recipe", tags: [{name: "lunch"}]}
\* of user@example.com; no request runs
InitRequests ==
    /\ users = {[email |-> e, name |-> "Test Name", password |-> "testpass123"] : e \in Emails}
    /\ tags = {[id |-> 1, user |-> "user@example.com", name |-> "lunch"]}
    /\ recipes = {[id |-> 1, user |-> "user@example.com", title |-> "Sample recipe",
                   image |-> NoImage]}
    /\ recipe_tags = {[recipe_id |-> 1, tag_id |-> 1]}
    /\ nextTagId = 2
    /\ nextRecipeId = 2
    /\ writes = 0
    /\ resp = Response("none", "", 0, <<>>, 0, <<>>)
    /\ inflight = Requests

NextRace ==
    \/ \E p \in Procs, u \in Emails, t \in NewTitles, ts \in TagSpecs : BeginCreate(p, u, t, ts)
    \/ \E p \in Procs, u \in Emails, id \in RecipeKeys :
            \E t \in Titles \ NewTitles, ts \in TagSpecs : BeginUpdateTags(p, u, id, t, ts)
    \/ \E p \in Procs : ProcClear(p)
    \/ \E p \in Procs : ProcLookup(p)
    \/ \E p \in Procs : ProcInsert(p)
    \/ \E p \in Procs : ProcAdd(p)
    \/ \E p \in Procs : ProcFinish(p)

\* two workers run recipe creates and updates at the same time
SpecRace == InitRequests /\ [][NextRace]_vars

NextFail ==
    \/ NextRace
    \/ \E u \in Emails, id \in TagKeys : ConcurrentDeleteTag(u, id)

\* tag deletes run between the statements of the creates and updates
SpecFail == InitRequests /\ [][NextFail]_vars

-----------------------------------------------------------------------------
(* Properties *)

\* the store read directly, without the query sets of the views
RecipeIdsOf(u) == {r.id : r \in {x \in recipes : x.user = u}}
TagIdsOf(u) == {t.id : t \in {x \in tags : x.user = u}}
LinksOfTag(rt, id) == {a \in rt : a.tag_id = id}
DataIds(data) == {data[i].id : i \in 1..Len(data)}
NoRepeats(data) == \A i, j \in 1..Len(data) : data[i].id = data[j].id => i = j
PayloadNames(p) == IF p.tags = NoTags THEN {} ELSE Range(p.tags)

\* C1: a recipe list (filtered by tags or not) and a tag list contain only
\* recipes and tags of the user who asks, and a get of a recipe id that is not
\* the user's own answers 404 with no object.
OwnerIsolation ==
    /\ resp.op = "list_recipes" /\ resp.status = 200 =>
           \A i \in 1..Len(resp.data) :
               /\ resp.data[i].id \in RecipeIdsOf(resp.user)
               /\ \A t \in resp.data[i].tags : t.id \in TagIdsOf(resp.user)
    /\ resp.op = "list_tags" =>
           \A i \in 1..Len(resp.data) : resp.data[i].id \in TagIdsOf(resp.user)
    /\ resp.op = "retrieve_recipe" /\ resp.id \notin RecipeIdsOf(resp.user) =>
           resp.status = 404 /\ resp.data = <<>>

\* a user lists the recipes and gets the own one while another user has a
\* recipe with tags
OwnerIsolationWitness ==
    /\ resp.op = "list_recipes"
    /\ resp.status = 200
    /\ Len(resp.data) = 1
    /\ \E r \in recipes : r.user # resp.user /\ TagsOf(recipe_tags, r.id) # {}

\* C2: an update, delete or upload-image addressed to a recipe of another user,
\* and an update or delete addressed to a tag of another user, answers 404 and
\* leaves the row, its existence and its associations as they were.
ForeignWriteNotFound ==
    [][ /\ resp'.op \in {"update_recipe", "delete_recipe", "upload_image"} =>
               \A r \in recipes :
                   r.id = resp'.id /\ r.user # resp'.user =>
                       /\ resp'.status = 404
                       /\ r \in recipes'
                       /\ TagsOf(recipe_tags', r.id) = TagsOf(recipe_tags, r.id)
        /\ resp'.op \in {"update_tag", "delete_tag"} =>
               \A t \in tags :
                   t.id = resp'.id /\ t.user # resp'.user =>
                       /\ resp'.status = 404
                       /\ t \in tags'
                       /\ LinksOfTag(recipe_tags', t.id) = LinksOfTag(recipe_tags, t.id)
      ]_vars

\* a delete addressed to a recipe with tags of another user
ForeignWriteWitness ==
    /\ resp.op = "delete_recipe"
    /\ resp.status = 404
    /\ \E r \in recipes :
           r.id = resp.id /\ r.user # resp.user /\ TagsOf(recipe_tags, r.id) # {}

\* C3: a recipe create with tag names attaches, for each distinct name, the
\* owner's row of that name when there is one, creating none, and one new row
\* of the owner otherwise; the tag set of the new recipe is the set of the
\* distinct names given.
CreateResolvesTags ==
    [][ resp'.op = "create_recipe" =>
            LET o == resp'.user
                names == PayloadNames(resp'.payload)
                attached == {t \in tags' : t.id \in TagsOf(recipe_tags', resp'.id)}
                Rows(tgs, n) == {t \in tgs : t.user = o /\ t.name = n}
            IN  /\ resp'.status = 201
                /\ \A n \in names :
                       /\ Cardinality(Rows(tags', n)) = 1
                       /\ Rows(tags', n) \subseteq attached
                       /\ Rows(tags, n) # {} => Rows(tags', n) = Rows(tags, n)
                /\ {t.name : t \in attached} = names
                /\ Cardinality(TagsOf(recipe_tags', resp'.id)) = Cardinality(names)
                /\ tags \subseteq tags'
                /\ \A t \in tags' \ tags : t.user = o /\ t.name \in names
                /\ resp'.data[1].tags = {TagRepr(t) : t \in attached}
      ]_vars

\* a create that names one tag twice, the tag being a row another recipe
\* carries already
CreateResolvesTagsWitness ==
    /\ resp.op = "create_recipe"
    /\ resp.status = 201
    /\ resp.payload.tags # NoTags
    /\ Len(resp.payload.tags) = 2
    /\ Cardinality(Range(resp.payload.tags)) = 1
    /\ Cardinality(TagsOf(recipe_tags, resp.id)) = 1
    /\ \E a \in recipe_tags :
           a.recipe_id # resp.id /\ a.tag_id \in TagsOf(recipe_tags, resp.id)

\* C4: after a recipe update whose payload carries the tags field, the tags of
\* the recipe are the owner's tags of the names given, one per name: a tag
\* attached before and not named is detached, and the empty list leaves no tag.
UpdateReplacesTags ==
    [][ resp'.op = "update_recipe" /\ resp'.status # 404 /\ resp'.payload.tags # NoTags =>
            LET names == Range(resp'.payload.tags)
                before == {t \in tags : t.id \in TagsOf(recipe_tags, resp'.id)}
                attached == {t \in tags' : t.id \in TagsOf(recipe_tags', resp'.id)}
            IN  /\ resp'.status = 200
                /\ \A t \in attached : t.user = resp'.user
                /\ {t.name : t \in attached} = names
                /\ Cardinality(TagsOf(recipe_tags', resp'.id)) = Cardinality(names)
                /\ \A t \in before : t.name \notin names => t \notin attached
                /\ resp'.payload.tags = <<>> => TagsOf(recipe_tags', resp'.id) = {}
      ]_vars

\* an update with the empty list of a recipe that was created with tags
UpdateReplacesTagsWitness ==
    /\ resp.op = "update_recipe"
    /\ resp.status = 200
    /\ resp.payload.tags = <<>>
    /\ TagsOf(recipe_tags, resp.id) = {}
    /\ writes = 2
    /\ Cardinality(recipes) = 1
    /\ Cardinality(tags) = 2

\* C5: a recipe update whose payload carries no tags field leaves the
\* associations of the recipe as they were and creates or deletes no tag row.
UpdateWithoutTags ==
    [][ resp'.op = "update_recipe" /\ resp'.status # 404 /\ resp'.payload.tags = NoTags =>
            /\ resp'.status = 200
            /\ TagsOf(recipe_tags', resp'.id) = TagsOf(recipe_tags, resp'.id)
            /\ recipe_tags' = recipe_tags
            /\ tags' = tags
      ]_vars

\* an update of the title alone of a recipe with tags
UpdateWithoutTagsWitness ==
    /\ resp.op = "update_recipe"
    /\ resp.status = 200
    /\ resp.payload.tags = NoTags
    /\ resp.payload.title = "Thai curry"
    /\ resp.data[1].title = "Thai curry"
    /\ TagsOf(recipe_tags, resp.id) # {}

\* the tag ids a well-formed value of the tags parameter lists
ListedTagIds(qs) ==
    CASE qs = <<"1">> -> {1}
      [] qs = <<"2">> -> {2}
      [] qs = <<"1", ",", "2">> -> {1, 2}
      [] qs = <<"1", ",", " ", "2">> -> {1, 2}
      [] qs = <<"2", ",", "2">> -> {2}
WellFormedQueries ==
    { <<"1">>, <<"2">>, <<"1", ",", "2">>, <<"1", ",", " ", "2">>, <<"2", ",", "2">> }

\* C6: a recipe list filtered by a comma-separated list of tag ids is the
\* caller's recipes that carry at least one of the tags listed, each of them
\* once, and no other recipe.
FilterByTags ==
    resp.op = "list_recipes" /\ resp.payload.tags \in WellFormedQueries =>
        /\ resp.status = 200
        /\ DataIds(resp.data) =
               {id \in RecipeIdsOf(resp.user) :
                    TagsOf(recipe_tags, id) \cap ListedTagIds(resp.payload.tags) # {}}
        /\ NoRepeats(resp.data)

\* the filter lists two tags: one recipe of the caller carries both, another
\* recipe of the caller carries none
FilterByTagsWitness ==
    /\ resp.op = "list_recipes"
    /\ resp.payload.tags = <<"1", ",", "2">>
    /\ Len(resp.data) = 1
    /\ TagsOf(recipe_tags, resp.data[1].id) = {1, 2}
    /\ \E id \in RecipeIdsOf(resp.user) : TagsOf(recipe_tags, id) = {}

\* C7: a tag list with assigned_only set is the caller's tags attached to at
\* least one recipe of the caller, each of them once.
AssignedOnlyTags ==
    resp.op = "list_tags" /\ resp.payload.assigned_only = "1" =>
        /\ DataIds(resp.data) =
               {id \in TagIdsOf(resp.user) :
                    \E a \in LinksOfTag(recipe_tags, id) :
                        a.recipe_id \in RecipeIdsOf(resp.user)}
        /\ NoRepeats(resp.data)

\* C8: while a recipe update that names the tags the recipe has already runs,
\* a get or a list by the owner shows the recipe with the tags it had.
UpdateTagsAtomic ==
    /\ inflight.pc # "idle"
    /\ {t.name : t \in inflight.before} = Range(inflight.tags)
    /\ resp.op \in {"retrieve_recipe", "list_recipes"}
    /\ resp.user = inflight.user
    /\ resp.status = 200
    => \A i \in 1..Len(resp.data) :
           resp.data[i].id = inflight.id => resp.data[i].tags = inflight.before

\* C9: a tag delete removes the row of the tag and its associations, nothing
\* else: the recipes, their other associations and the other tag rows stay.
DeleteTagDetaches ==
    [][ resp'.op = "delete_tag" /\ resp'.status = 204 =>
            /\ tags' = {t \in tags : t.id # resp'.id}
            /\ recipe_tags' = recipe_tags \ LinksOfTag(recipe_tags, resp'.id)
            /\ recipes' = recipes
      ]_vars

\* the delete of one of the two tags a recipe was created with
DeleteTagDetachesWitness ==
    /\ resp.op = "delete_tag"
    /\ resp.status = 204
    /\ writes = 2
    /\ nextTagId = 3
    /\ Cardinality(tags) = 1
    /\ \E r \in recipes : Cardinality(TagsOf(recipe_tags, r.id)) = 1

\* C10: a user creation with a password of fewer than 5 characters answers
\* 400 and the user table is as it was.
ShortPasswordRejected ==
    [][ resp'.op = "create_user" /\ Len(resp'.payload.password) < 5 =>
            resp'.status = 400 /\ users' = users
      ]_vars

\* a creation whose only fault is the password, after another user registered
ShortPasswordWitness ==
    /\ resp.op = "create_user"
    /\ resp.status = 400
    /\ Len(resp.payload.password) = 4
    /\ resp.payload.email \notin BadEmails
    /\ resp.payload.email \notin {u.email : u \in users}
    /\ users # {}

TagOwnerIsRecipeOwner ==
    \A a \in recipe_tags : \A r \in recipes : \A t \in tags :
        r.id = a.recipe_id /\ t.id = a.tag_id => r.user = t.user

\* a user creates or updates a recipe with a tag name another user's recipe
\* carries already
TagOwnerIsRecipeOwnerWitness ==
    /\ resp.op \in {"create_recipe", "update_recipe"}
    /\ resp.status \in {200, 201}
    /\ \E t, u \in tags :
           /\ t.user = resp.user /\ u.user # resp.user /\ t.name = u.name
           /\ t.id \in TagsOf(recipe_tags, resp.id)
           /\ u.id < t.id
           /\ \E a \in recipe_tags : a.tag_id = u.id

AllOrNothing ==
    \A p \in Procs :
        LET a == inflight.reqs[p]
        IN  a.pc = "failed" =>
                /\ a.kind = "create" => ~(\E r \in recipes : r.id = a.id)
                /\ \A t \in tags : t.id \notin a.made
                /\ (\A q \in Procs : q # p => inflight.reqs[q].id # a.id) =>
                       TagsOf(recipe_tags, a.id) =
                           {id \in a.before : \E t \in tags : t.id = id}

====
